---------------------------- MODULE Spec2Model ----------------------------
(***************************************************************************)
(* HelioSaver: header transcoding (src/heliosaver/fits.py) and the         *)
(* per-date download loops (fits.py, png.py).                              *)
(*                                                                         *)
(* Text is a sequence of Unicode code points.  Str turns a tuple of        *)
(* one-character strings into such a sequence; code points outside the     *)
(* printable ASCII range are written as numbers.                           *)
(***************************************************************************)
EXTENDS Integers, Sequences, FiniteSets, TLC

(* ----------------------------- text helpers ---------------------------- *)

Ascii ==
  << " ", "!", "dquote", "#", "$", "%", "&", "'", "(", ")", "*", "+", ",", "-", ".", "/",
     "0", "1", "2", "3", "4", "5", "6", "7", "8", "9", ":", ";", "<", "=", ">", "?",
     "@", "A", "B", "C", "D", "E", "F", "G", "H", "I", "J", "K", "L", "M", "N", "O",
     "P", "Q", "R", "S", "T", "U", "V", "W", "X", "Y", "Z", "[", "\\", "]", "^", "_",
     "bquote", "a", "b", "c", "d", "e", "f", "g", "h", "i", "j", "k", "l", "m", "n", "o",
     "p", "q", "r", "s", "t", "u", "v", "w", "x", "y", "z", "{", "|", "}", "~" >>

Ord(c) == 31 + (CHOOSE i \in 1..Len(Ascii) : Ascii[i] = c)

Str(cs) == [i \in 1..Len(cs) |-> Ord(cs[i])]

Min(a, b) == IF a <= b THEN a ELSE b

Abs(n) == IF n < 0 THEN 0 - n ELSE n

Repeat(c, n) == [i \in 1..n |-> c]

\* s[:n]
Take(s, n) == SubSeq(s, 1, Min(n, Len(s)))

\* s[n:]
Drop(s, n) == SubSeq(s, n + 1, Len(s))

\* c in s
Contains(s, c) == \E i \in 1..Len(s) : s[i] = c

IsDigit(c) == c \in 48..57

\* str.lower(), per code point (ASCII and Latin-1 capitals)
LowerChar(c) ==
  IF c \in 65..90 \/ (c \in 192..222 /\ c # 215) THEN c + 32 ELSE c

Lower(s) == [i \in 1..Len(s) |-> LowerChar(s[i])]

\* str.upper(), per code point (ASCII and Latin-1 small letters)
UpperChar(c) ==
  IF c \in 97..122 \/ (c \in 224..254 /\ c # 247) THEN c - 32 ELSE c

Upper(s) == [i \in 1..Len(s) |-> UpperChar(s[i])]

\* the code points str.strip() removes (those below U+0100)
IsSpace(c) == c \in {9, 10, 11, 12, 13, 28, 29, 30, 31, 32, 133, 160}

\* str.strip()
Strip(s) ==
  IF \A i \in 1..Len(s) : IsSpace(s[i]) THEN << >>
  ELSE LET first == CHOOSE i \in 1..Len(s) :
                      /\ ~IsSpace(s[i])
                      /\ \A j \in 1..(i - 1) : IsSpace(s[j])
           last  == CHOOSE i \in 1..Len(s) :
                      /\ ~IsSpace(s[i])
                      /\ \A j \in (i + 1)..Len(s) : IsSpace(s[j])
       IN  SubSeq(s, first, last)

\* str.replace(a, b) for one-character a and b
ReplaceChar(s, a, b) == [i \in 1..Len(s) |-> IF s[i] = a THEN b ELSE s[i]]

IsAsciiChar(c) == c < 128

\* s.encode("ascii", "ignore").decode("ascii")
AsciiIgnore(s) == SelectSeq(s, IsAsciiChar)

(* ------------------------- Python numeric parsers ---------------------- *)

RECURSIVE DecText(_)
\* str(n) for n >= 0
DecText(n) ==
  IF n < 10 THEN << 48 + n >> ELSE Append(DecText(n \div 10), 48 + (n % 10))

AllDigits(s) == Len(s) > 0 /\ \A i \in 1..Len(s) : IsDigit(s[i])

RECURSIVE DigitsValue(_)
DigitsValue(s) ==
  IF Len(s) = 0 THEN 0
  ELSE 10 * DigitsValue(SubSeq(s, 1, Len(s) - 1)) + (s[Len(s)] - 48)

HasSign(s) == Len(s) > 0 /\ s[1] \in {43, 45}

Unsigned(s) == IF HasSign(s) THEN Drop(s, 1) ELSE s

SignOf(s) == IF Len(s) > 0 /\ s[1] = 45 THEN 0 - 1 ELSE 1

\* int(s) succeeds: an optional sign and decimal digits
IsIntLiteral(s) == AllDigits(Unsigned(s))

IntOf(s) == SignOf(s) * DigitsValue(Unsigned(s))

\* position of the exponent marker (e or E) in s, 0 if none
ExpMark(s) ==
  IF \E i \in 1..Len(s) : s[i] \in {69, 101}
  THEN CHOOSE i \in 1..Len(s) :
         s[i] \in {69, 101} /\ \A j \in 1..(i - 1) : s[j] \notin {69, 101}
  ELSE 0

\* position of the first "." in s, 0 if none
DotMark(s) ==
  IF Contains(s, 46)
  THEN CHOOSE i \in 1..Len(s) : s[i] = 46 /\ \A j \in 1..(i - 1) : s[j] # 46
  ELSE 0

\* mantissa text of a float literal (sign removed, exponent part removed)
MantText(s) ==
  LET u == Unsigned(s)
  IN  IF ExpMark(u) = 0 THEN u ELSE SubSeq(u, 1, ExpMark(u) - 1)

\* exponent text of a float literal ("" when there is no exponent marker)
ExpText(s) ==
  LET u == Unsigned(s)
  IN  IF ExpMark(u) = 0 THEN << >> ELSE Drop(u, ExpMark(u))

MantInt(s)  ==
  LET m == MantText(s)
  IN  IF DotMark(m) = 0 THEN m ELSE SubSeq(m, 1, DotMark(m) - 1)

MantFrac(s) ==
  LET m == MantText(s)
  IN  IF DotMark(m) = 0 THEN << >> ELSE Drop(m, DotMark(m))

\* float(s) succeeds on a decimal literal: [sign] (D+ [. D*] | . D+) [e [sign] D+].
\* float() also reads inf, infinity and nan; none of them holds "." or "e", so
\* _parse_fits_value never hands them to float().
IsFloatLiteral(s) ==
  /\ \A i \in 1..Len(MantInt(s))  : IsDigit(MantInt(s)[i])
  /\ \A i \in 1..Len(MantFrac(s)) : IsDigit(MantFrac(s)[i])
  /\ Len(MantInt(s)) + Len(MantFrac(s)) > 0
  /\ ExpMark(Unsigned(s)) # 0 => IsIntLiteral(ExpText(s))

RECURSIVE Normalize(_, _)
\* the decimal m * 10^e with trailing zeros of m moved into e
Normalize(m, e) ==
  IF m = 0 THEN << 0, 0 >>
  ELSE IF m % 10 = 0 THEN Normalize(m \div 10, e + 1)
  ELSE << m, e >>

(* ------------------------------ typed values --------------------------- *)

IntVal(n)      == [kind |-> "int",   num |-> n, exp |-> 0, txt |-> << >>]
FloatVal(m, e) == [kind |-> "float", num |-> Normalize(m, e)[1],
                   exp |-> Normalize(m, e)[2], txt |-> << >>]
StrVal(s)      == [kind |-> "str",   num |-> 0, exp |-> 0, txt |-> s]

\* float(s) as the decimal it denotes
FloatOf(s) ==
  LET e == IF ExpMark(Unsigned(s)) = 0 THEN 0 ELSE IntOf(ExpText(s))
      m == SignOf(s) * DigitsValue(MantInt(s) \o MantFrac(s))
  IN  FloatVal(m, e - Len(MantFrac(s)))


(* --------------------------- fits.py: values --------------------------- *)

\* Python's None for an element without text (no code point is negative)
None == << 0 - 1 >>

NA == Str(<< "N", "/", "A" >>)

\* _sanitize_fits_value keeps this many characters
MaxCard == 68

\* header_xml_to_fits_header keeps this many characters of a tag
KeyLen == 8

\* ... and this many of a colliding key, before the digit
BaseLen == 7

\* ... and tries this many digits
NumProbes == 10

\* mutant of sanitize_fits_value: the [:68] slice is forgotten
sanitize_fits_value_NoSlice(value) ==
  IF value = None \/ value = << >> THEN NA
  ELSE AsciiIgnore(Strip(ReplaceChar(ReplaceChar(value, 10, 32), 13, 32)))

sanitize_fits_value(value) ==
  IF value = None \/ value = << >> THEN NA
  ELSE Take(AsciiIgnore(Strip(ReplaceChar(ReplaceChar(value, 10, 32), 13, 32))),
            MaxCard)

ZeroWords ==
  { Str(<< "n", "a", "n" >>), Str(<< "n", "u", "l", "l" >>),
    Str(<< "n", "/", "a" >>), << >> }

PosInfWords == { Str(<< "i", "n", "f" >>), Str(<< "+", "i", "n", "f" >>) }

NegInfWord == Str(<< "-", "i", "n", "f" >>)

\* the try block of _parse_fits_value: float() or int(), else the sanitized text
NumericOrText(s) ==
  IF Contains(s, 46) \/ Contains(Lower(s), 101)
  THEN IF IsFloatLiteral(s) THEN FloatOf(s) ELSE StrVal(sanitize_fits_value(s))
  ELSE IF IsIntLiteral(s) THEN IntVal(IntOf(s)) ELSE StrVal(sanitize_fits_value(s))

\* mutant of parse_fits_value: the sentinels are compared without .lower()
parse_fits_value_NoLower(value) ==
  IF value = None THEN StrVal(NA)
  ELSE LET s == Strip(value)
       IN  IF s \in ZeroWords THEN IntVal(0)
           ELSE IF s \in PosInfWords THEN FloatVal(1, 9)
           ELSE IF s = NegInfWord THEN FloatVal(0 - 1, 9)
           ELSE NumericOrText(s)

parse_fits_value(value) ==
  IF value = None THEN StrVal(NA)
  ELSE LET s == Strip(value)
       IN  IF Lower(s) \in ZeroWords THEN IntVal(0)
           ELSE IF Lower(s) \in PosInfWords THEN FloatVal(1, 9)
           ELSE IF Lower(s) = NegInfWord THEN FloatVal(0 - 1, 9)
           ELSE NumericOrText(s)

(* --------------------------- fits.py: header --------------------------- *)

\* fits.Header as the ordered list of its (keyword, value) cards

HasKey(h, k) == \E i \in 1..Len(h) : h[i].key = k

Keys(h) == { h[i].key : i \in 1..Len(h) }

ValueAt(h, k) == h[CHOOSE i \in 1..Len(h) : h[i].key = k].val

\* mutant of SetCard: every assignment appends a card
SetCard_Append(h, k, v) == Append(h, [key |-> k, val |-> v])

\* hdr[key] = val: a present keyword has its value replaced, a new one is appended
SetCard(h, k, v) ==
  IF HasKey(h, k)
  THEN [i \in 1..Len(h) |-> IF h[i].key = k THEN [key |-> k, val |-> v] ELSE h[i]]
  ELSE Append(h, [key |-> k, val |-> v])

\* element.tag.upper().strip()[:8]
CandidateKey(tag) == Take(Strip(Upper(tag)), KeyLen)

\* f"{base}{i}"
Suffixed(key, i) == Append(Take(key, BaseLen), 48 + i)

\* the digits whose suffixed keyword is not in the header
FreeDigits(h, key) == { i \in 0..(NumProbes - 1) : ~HasKey(h, Suffixed(key, i)) }

\* which way the body of the loop goes for a candidate key
Branch(h, key) ==
  IF ~HasKey(h, key) THEN "fresh"
  ELSE IF FreeDigits(h, key) # {} THEN "suffixed"
  ELSE "exhausted"

\* mutant of ResolveKey: the probe runs from 9 down to 0
ResolveKey_Descending(h, key) ==
  IF HasKey(h, key) /\ FreeDigits(h, key) # {}
  THEN Suffixed(key, CHOOSE i \in FreeDigits(h, key) :
                       \A j \in FreeDigits(h, key) : i >= j)
  ELSE key

\* the key after the "if key in hdr" block
ResolveKey(h, key) ==
  IF HasKey(h, key) /\ FreeDigits(h, key) # {}
  THEN Suffixed(key, CHOOSE i \in FreeDigits(h, key) :
                       \A j \in FreeDigits(h, key) : i <= j)
  ELSE key

\* one pass of the loop body
PutElement(h, el) ==
  SetCard(h, ResolveKey(h, CandidateKey(el.tag)), parse_fits_value(el.text))

RECURSIVE PutAll(_, _)
PutAll(h, els) ==
  IF Len(els) = 0 THEN h ELSE PutAll(PutElement(h, Head(els)), Tail(els))

\* the whole function on a well-formed document
header_xml_to_fits_header(els) == PutAll(<< >>, els)


(* ----------------------- datetime.strptime, strftime ------------------- *)

\* s[i], or no character when i is outside s
At(s, i) == IF i \in 1..Len(s) THEN s[i] ELSE 0 - 1

\* a directive of one or two digits at position i: how many characters it takes
\* (0 when there is no digit) and their value
TwoDigits(s, i) ==
  IF ~IsDigit(At(s, i)) THEN [n |-> 0, v |-> 0]
  ELSE IF IsDigit(At(s, i + 1))
       THEN [n |-> 2, v |-> 10 * (At(s, i) - 48) + (At(s, i + 1) - 48)]
       ELSE [n |-> 1, v |-> At(s, i) - 48]

\* %d also takes a space followed by a digit 1-9
DayField(s, i) ==
  IF At(s, i) = 32 /\ At(s, i + 1) \in 49..57
  THEN [n |-> 2, v |-> At(s, i + 1) - 48]
  ELSE TwoDigits(s, i)

\* a literal of the format, matched ignoring case
Lit(s, i, c) == LowerChar(At(s, i)) = LowerChar(c)

RECURSIVE SpaceRun(_, _)
\* the number of whitespace characters from position i on
SpaceRun(s, i) == IF IsSpace(At(s, i)) THEN 1 + SpaceRun(s, i + 1) ELSE 0

IsLeap(y) == y % 4 = 0 /\ (y % 100 # 0 \/ y % 400 = 0)

DaysInMonth(y, m) ==
  IF m = 2 THEN (IF IsLeap(y) THEN 29 ELSE 28)
  ELSE IF m \in {4, 6, 9, 11} THEN 30 ELSE 31

RECURSIVE DaysBeforeMonth(_, _)
DaysBeforeMonth(y, m) ==
  IF m = 1 THEN 0 ELSE DaysBeforeMonth(y, m - 1) + DaysInMonth(y, m - 1)

\* date.toordinal()
Ordinal(y, m, d) ==
  365 * (y - 1) + ((y - 1) \div 4) - ((y - 1) \div 100) + ((y - 1) \div 400)
    + DaysBeforeMonth(y, m) + d

BadStamp == [ok |-> FALSE, Y |-> 0, M |-> 0, D |-> 0, h |-> 0, m |-> 0, s |-> 0]

\* datetime.strptime(s, fmt): fmt is "%Y-%m-%dT%H:%M:%SZ" when iso, and
\* "%Y-%m-%d %H:%M:%S" otherwise (a space of the format takes any run of
\* whitespace).  ok = FALSE stands for the ValueError.  The fields are read
\* from left to right, each stage handing on what it read and where it stopped.

\* the separator between date and time at position pSep: how long it is
SepLen(s, iso, pSep) ==
  IF iso THEN (IF Lit(s, pSep, 84) THEN 1 ELSE 0) ELSE SpaceRun(s, pSep)

\* the end of the match, and the datetime constructor
StpCheck(s, iso, mo, da, pD, sepN, ho, mi, pMi, se, pS) ==
  IF /\ \A i \in 1..4 : IsDigit(At(s, i))
     /\ Lit(s, 5, 45)
     /\ mo.n > 0 /\ mo.v \in 1..12
     /\ Lit(s, pD - 1, 45)
     /\ da.n > 0 /\ da.v \in 1..31
     /\ sepN > 0
     /\ ho.n > 0 /\ ho.v \in 0..23
     /\ Lit(s, pMi - 1, 58)
     /\ mi.n > 0 /\ mi.v \in 0..59
     /\ Lit(s, pS - 1, 58)
     /\ se.n > 0 /\ se.v \in 0..61
     /\ IF iso THEN Lit(s, pS + se.n, 90) /\ Len(s) = pS + se.n
               ELSE Len(s) = pS + se.n - 1
     \* the datetime constructor
     /\ DigitsValue(SubSeq(s, 1, 4)) >= 1
     /\ da.v <= DaysInMonth(DigitsValue(SubSeq(s, 1, 4)), mo.v)
     /\ se.v <= 59
  THEN [ok |-> TRUE, Y |-> DigitsValue(SubSeq(s, 1, 4)), M |-> mo.v, D |-> da.v,
        h |-> ho.v, m |-> mi.v, s |-> se.v]
  ELSE BadStamp

\* %S at position pS
StpSecond(s, iso, mo, da, pD, sepN, ho, mi, pMi, pS) ==
  StpCheck(s, iso, mo, da, pD, sepN, ho, mi, pMi, TwoDigits(s, pS), pS)

\* %M at position pMi, then ":"
StpMinute(s, iso, mo, da, pD, sepN, ho, mi, pMi) ==
  StpSecond(s, iso, mo, da, pD, sepN, ho, mi, pMi, pMi + mi.n + 1)

\* %H at position pH, then ":"
StpHour(s, iso, mo, da, pD, sepN, ho, pH) ==
  StpMinute(s, iso, mo, da, pD, sepN, ho,
            TwoDigits(s, pH + ho.n + 1), pH + ho.n + 1)

\* "T" or the whitespace after the day, which ends at pSep
StpSep(s, iso, mo, da, pD, sepN, pSep) ==
  StpHour(s, iso, mo, da, pD, sepN, TwoDigits(s, pSep + sepN), pSep + sepN)

\* %d at position pD
StpDay(s, iso, mo, da, pD) ==
  StpSep(s, iso, mo, da, pD, SepLen(s, iso, pD + da.n), pD + da.n)

\* %m, read after the four digits of %Y and "-"
StpMonth(s, iso, mo) == StpDay(s, iso, mo, DayField(s, 7 + mo.n), 7 + mo.n)

Strptime(s, iso) == StpMonth(s, iso, TwoDigits(s, 6))

\* _iso_z_to_dt
iso_z_to_dt(s) == Strptime(s, TRUE)

\* _hv_dt_to_dt
hv_dt_to_dt(s) == Strptime(s, FALSE)

\* (a - b).total_seconds() for two UTC datetimes
TotalSeconds(a, b) ==
  (Ordinal(a.Y, a.M, a.D) - Ordinal(b.Y, b.M, b.D)) * 86400
    + (a.h - b.h) * 3600 + (a.m - b.m) * 60 + (a.s - b.s)

\* n as at least w digits
Padded(n, w) ==
  LET t == DecText(n) IN Repeat(48, w - Min(w, Len(t))) \o t

\* dt.strftime("%Y-%m-%dT%H:%M:%SZ") (glibc does not pad %Y)
StrftimeIsoZ(dt) ==
  DecText(dt.Y) \o << 45 >> \o Padded(dt.M, 2) \o << 45 >> \o Padded(dt.D, 2)
    \o << 84 >> \o Padded(dt.h, 2) \o << 58 >> \o Padded(dt.m, 2) \o << 58 >>
    \o Padded(dt.s, 2) \o << 90 >>

(* ------------------------------- inputs -------------------------------- *)

\* longest document built from every combination of tags
MaxShortLen == 3

\* most repetitions of one tag in a document
MaxRepeat == 12

El(tag, text) == [tag |-> tag, text |-> text]

TagPool ==
  { Str(<< "a" >>), Str(<< "A", "0" >>), Str(<< "d", "a", "t", "e" >>),
    Str(<< "a", "b", "c", "d", "e", "f", "g", "h" >>),
    Str(<< "a", "b", "c", "d", "e", "f", "g", "0" >>),
    Str(<< "A", "b", "c", "d", "e", "f", "g", "h", "i", "j" >>) }

Xs(n) == Repeat(Ord("x"), n)

TextPool ==
  { None,
    Str(<< "n", "a", "n" >>), Str(<< "N", "a", "N" >>),
    << 32 >> \o Str(<< "N", "A", "N" >>) \o << 10 >>,
    Str(<< "n", "u", "l", "l" >>), Str(<< "N", "U", "L", "L" >>),
    Str(<< "n", "/", "a" >>), Str(<< "N", "/", "A" >>),
    << 32, 32 >>, << 10 >>, << 9, 13, 10 >>,
    Str(<< "i", "n", "f" >>), Str(<< "I", "n", "f" >>),
    Str(<< "+", "i", "n", "f" >>), Str(<< " ", "+", "I", "N", "F", " " >>),
    Str(<< "-", "i", "n", "f" >>), Str(<< "-", "I", "N", "F" >>) \o << 10 >>,
    Str(<< "i", "n", "f", "i", "n", "i", "t", "y" >>),
    Str(<< "-", "n", "a", "n" >>), Str(<< "n", "a", "n", "e" >>),
    Str(<< "n", "u", "l", "l", "s" >>), Str(<< "i", "n", "f", "." >>),
    Str(<< "3", ".", "1", "4" >>), Str(<< "7" >>), Str(<< "-", "7" >>),
    Str(<< "+", "7" >>), Str(<< "0", "0", "7" >>), Str(<< " ", "4", "2", " " >>),
    Str(<< "1", "e", "5" >>), Str(<< "1", "E", "5" >>), Str(<< "1", "e", "-", "2" >>),
    Str(<< "1", ".", "0", "e", "9" >>), Str(<< "-", "1", ".", "0", "e", "9" >>),
    Str(<< "1", "0", "0", "0", "0", "0", "0", "0", "0", "0" >>),
    Str(<< ".", "5" >>), Str(<< "5", "." >>), Str(<< "0", ".", "0" >>),
    Str(<< "1", "e" >>), Str(<< "e" >>), Str(<< "." >>), Str(<< "-" >>),
    Str(<< "1", ".", "2", ".", "3" >>), Str(<< "1", " ", "2" >>),
    Str(<< "2", "0", "1", "4", "-", "0", "1", "-", "0", "1", " ",
           "2", "3", ":", "5", "9", ":", "5", "9" >>),
    Str(<< "h", "e", "l", "l", "o" >>), Str(<< "S", "D", "O" >>),
    Str(<< "A", "I", "A" >>) \o << 10 >> \o Str(<< "1", "7", "1" >>),
    Str(<< "a" >>) \o << 13 >> \o Str(<< "b" >>),
    Str(<< "a" >>) \o << 13, 10 >> \o Str(<< "b" >>),
    << 233 >>, << 233, 233 >>, << 233, 32 >> \o Str(<< "x" >>),
    Str(<< "c", "a", "f" >>) \o << 233 >>, << 8451 >> \o Str(<< "K" >>),
    Str(<< "x" >>) \o << 11 >> \o Str(<< "y" >>),
    Xs(67), Xs(68), Xs(69), Xs(70), Xs(150),
    << 233 >> \o Xs(69), Xs(60) \o << 233 >> \o Xs(10),
    Xs(67) \o << 10 >> \o Xs(3), Xs(67) \o << 233, 13 >> \o Xs(3),
    << 32, 32 >> \o Xs(68) \o << 32 >> }

\* the elements of a document whose i-th element has tag ts[i] and text str(i + off)
NumberedDoc(ts, off) == [i \in 1..Len(ts) |-> El(ts[i], DecText(i + off))]

TagSeqs(n) == UNION { [1..k -> TagPool] : k \in 1..n }

ValueDocs == { << El(t, x) >> : t \in TagPool, x \in TextPool }

ShortDocs == { NumberedDoc(ts, 0) : ts \in TagSeqs(MaxShortLen) }

LongDocs ==
  { NumberedDoc(pre \o Repeat(t, n), 0) :
      pre \in TagSeqs(1) \cup { << >> }, t \in TagPool, n \in 1..MaxRepeat }

\* <hv><a>3.14</a><a>7</a><date>2014-01-01 23:59:59</date></hv>
ExampleDoc ==
  << El(Str(<< "h", "v" >>), None),
     El(Str(<< "a" >>), Str(<< "3", ".", "1", "4" >>)),
     El(Str(<< "a" >>), Str(<< "7" >>)),
     El(Str(<< "d", "a", "t", "e" >>),
        Str(<< "2", "0", "1", "4", "-", "0", "1", "-", "0", "1", " ",
               "2", "3", ":", "5", "9", ":", "5", "9" >>)) >>

\* what ET.fromstring makes of the header text: a ParseError (ok = FALSE), or the
\* elements of the tree in document order, the root first
Malformed == [ok |-> FALSE, elems |-> << >>]

WellFormed(els) == [ok |-> TRUE, elems |-> els]

XmlPool ==
  { Malformed } \cup
  { WellFormed(d) : d \in ValueDocs \cup ShortDocs \cup LongDocs \cup { ExampleDoc } }

(* ------------------- header_xml_to_fits_header, stepwise ---------------- *)

\* the transcoder: its input, its place in the loop over the elements, the record
\* built so far, and what the last pass of the loop did
VARIABLES xml, pos, hdr, hpc, last

\* the download loops: which function runs and its arguments (dates,
\* max_time_delta_seconds, whether failed_log_path is set, save_header_txt), the
\* loop index and the place in the loop body, the locals of the current date
\* (image_id, closest_str, jp2_bytes, header_text; cleared when the date ends,
\* since no later code reads them), the returned dict, the lines of the failed
\* log, the calls made on the outside world for the current date and, per
\* finished date, whether it was saved
VARIABLES fn, dates, tol, logOn, saveHdr, di, ppc, cur, out, log, io, trail

hvars == << xml, pos, hdr, hpc, last >>

pvars == << fn, dates, tol, logOn, saveHdr, di, ppc, cur, out, log, io, trail >>

vars == << hvars, pvars >>

NoLast == [branch |-> "none", cand |-> << >>, key |-> << >>, text |-> None,
           val |-> StrVal(<< >>), before |-> << >>]

InitHeader ==
  /\ xml \in XmlPool
  /\ pos = 0
  /\ hdr = << >>
  /\ hpc = "start"
  /\ last = NoLast
  /\ fn = "fits"
  /\ dates = << >>
  /\ tol = [some |-> FALSE, v |-> 0]
  /\ logOn = FALSE
  /\ saveHdr = FALSE
  /\ di = 1
  /\ ppc = "idle"
  /\ cur = [id |-> << >>, closest |-> None, jp2 |-> "none",
            xml |-> [ok |-> FALSE, elems |-> << >>]]
  /\ out = << >>
  /\ log = << >>
  /\ io = << >>
  /\ trail = << >>

\* root = ET.fromstring(xml_text); hdr = fits.Header()
HdrParse ==
  /\ hpc = "start"
  /\ hpc' = IF xml.ok THEN "loop" ELSE "ParseError"
  /\ pos' = 1
  /\ hdr' = << >>
  /\ UNCHANGED << xml, last, pvars >>

\* one element of root.iter()
HdrElement ==
  /\ hpc = "loop"
  /\ pos <= Len(xml.elems)
  /\ LET el == xml.elems[pos]
     IN  /\ hdr' = PutElement(hdr, el)
         /\ last' = [branch |-> Branch(hdr, CandidateKey(el.tag)),
                     cand   |-> CandidateKey(el.tag),
                     key    |-> ResolveKey(hdr, CandidateKey(el.tag)),
                     text   |-> el.text,
                     val    |-> parse_fits_value(el.text),
                     before |-> hdr]
  /\ pos' = pos + 1
  /\ UNCHANGED << xml, hpc, pvars >>

\* return hdr
HdrReturn ==
  /\ hpc = "loop"
  /\ pos > Len(xml.elems)
  /\ hpc' = "done"
  /\ UNCHANGED << xml, pos, hdr, last, pvars >>

NextHeader == HdrParse \/ HdrElement \/ HdrReturn

(* ------------------------- the per-date loops --------------------------- *)

\* most requested dates in one call
MaxDates == 2

\* requested dates: a well-formed one, one that strptime takes although it is not
\* zero-padded and in lower case, and one in the resolver's format
ReqPool ==
  { Str(<< "2", "0", "1", "4", "-", "0", "1", "-", "0", "1", "T", "2", "3", ":", "5", "9", ":", "5", "9", "Z" >>),
    Str(<< "2", "0", "1", "4", "-", "1", "-", "1", "t", "2", "3", ":", "5", "9", ":", "5", "9", "z" >>),
    Str(<< "2", "0", "1", "4", "-", "0", "1", "-", "0", "1", " ", "2", "3", ":", "5", "9", ":", "5", "9" >>) }

\* "date" values of getClosestImage: 0, 5 and 11 seconds away from the first
\* requested date, and one in the requested format
ObsPool ==
  { Str(<< "2", "0", "1", "4", "-", "0", "1", "-", "0", "1", " ", "2", "3", ":", "5", "9", ":", "5", "9" >>),
    Str(<< "2", "0", "1", "4", "-", "0", "1", "-", "0", "2", " ", "0", "0", ":", "0", "0", ":", "0", "4" >>),
    Str(<< "2", "0", "1", "4", "-", "0", "1", "-", "0", "2", " ", "0", "0", ":", "0", "0", ":", "1", "0" >>),
    Str(<< "2", "0", "1", "4", "-", "0", "1", "-", "0", "2", "T", "0", "0", ":", "0", "0", ":", "1", "0", "Z" >>) }

NoTol == [some |-> FALSE, v |-> 0]

Tol(n) == [some |-> TRUE, v |-> n]

\* max_time_delta_seconds
TolPool == { NoTol, Tol(0), Tol(5) }

\* what getClosestImage answers: the request raises, a status other than 200, or
\* a JSON object whose "id" and "date" may each be missing
RespPool ==
  { [kind |-> "raise", id |-> << >>, date |-> None],
    [kind |-> "status", id |-> << >>, date |-> None],
    [kind |-> "json", id |-> << >>, date |-> Str(<< "2", "0", "1", "4", "-", "0", "1", "-", "0", "1", " ", "2", "3", ":", "5", "9", ":", "5", "9" >>)],
    [kind |-> "json", id |-> << 101 >>, date |-> None] }
  \cup { [kind |-> "json", id |-> << 101 >>, date |-> c] : c \in ObsPool }

\* header texts the service may deliver
HeaderPool == { Malformed, WellFormed(ExampleDoc) }

NoPath == << >>

\* os.path.join(output_path, f"helioviewer_{image_id}.xml.txt")
HeaderTxtPath(id) == << "xml.txt", id >>

\* os.path.join(output_path, f"helioviewer_{stem}_source_{source_id}.fits")
FitsPath(date) == << "fits", date >>

\* os.path.join(day_dir, f"helioviewer_{stem}_source_{source_id}.png")
PngPath(date) == << "png", date >>

NoCur == [id |-> << >>, closest |-> None, jp2 |-> "none", xml |-> Malformed]

\* the value stored for a date that was not saved
NoneOutcome(f) ==
  IF f = "fits" THEN [header_txt |-> NoPath, fits |-> NoPath] ELSE [png |-> NoPath]

\* out[date] = v
SetOut(o, d, v) == [x \in DOMAIN o \cup {d} |-> IF x = d THEN v ELSE o[x]]

\* one line of the failed log: the date, the FAIL:/SKIP: word, the exception's
\* type for FAIL:exception, and the remaining tab-separated fields
Line(d, tag, exc, extra) == [date |-> d, tag |-> tag, exc |-> exc, extra |-> extra]

\* _append_failed: one write of line.rstrip() + "\n", or nothing without a path
AppendFailed_Unconditional(lg, on, line) == Append(lg, line)

AppendFailed(lg, on, line) == IF on THEN Append(lg, line) ELSE lg

\* the suffix the PNG loop gives two of its words
Sfx(f) == IF f = "png" THEN "(PNG)" ELSE ""

\* the closest-image check of one date: the word of the failed log it ends in
\* ("" when the date goes on to the download), with the fields of that line
GateDecision_ClosestFirst(date, closest, t) ==
  LET rq == iso_z_to_dt(date)
      cl == hv_dt_to_dt(closest)
  IN
  IF ~t.some THEN [word |-> "", extra |-> << >>]
  ELSE IF ~cl.ok
       THEN [word |-> "FAIL:bad_closest_date_format", extra |-> << closest >>]
  ELSE IF ~rq.ok
       THEN [word |-> "FAIL:bad_requested_date_format", extra |-> << >>]
  ELSE LET dt_sec == Abs(TotalSeconds(cl, rq))
       IN  IF dt_sec > t.v
           THEN [word |-> "SKIP:closest_out_of_range",
                 extra |-> << StrftimeIsoZ(cl), DecText(dt_sec) >>]
           ELSE [word |-> "", extra |-> << >>]

GateDecision_Strict(date, closest, t) ==
  LET rq == iso_z_to_dt(date)
      cl == hv_dt_to_dt(closest)
  IN
  IF ~t.some THEN [word |-> "", extra |-> << >>]
  ELSE IF ~rq.ok
       THEN [word |-> "FAIL:bad_requested_date_format", extra |-> << >>]
  ELSE IF ~cl.ok
       THEN [word |-> "FAIL:bad_closest_date_format", extra |-> << closest >>]
  ELSE LET dt_sec == Abs(TotalSeconds(cl, rq))
       IN  IF dt_sec >= t.v
           THEN [word |-> "SKIP:closest_out_of_range",
                 extra |-> << StrftimeIsoZ(cl), DecText(dt_sec) >>]
           ELSE [word |-> "", extra |-> << >>]

GateDecision_NoRange(date, closest, t) ==
  LET rq == iso_z_to_dt(date)
      cl == hv_dt_to_dt(closest)
  IN
  IF ~t.some THEN [word |-> "", extra |-> << >>]
  ELSE IF ~rq.ok
       THEN [word |-> "FAIL:bad_requested_date_format", extra |-> << >>]
  ELSE IF ~cl.ok
       THEN [word |-> "FAIL:bad_closest_date_format", extra |-> << closest >>]
  ELSE [word |-> "", extra |-> << >>]

GateDecision(date, closest, t) ==
  LET rq == iso_z_to_dt(date)
      cl == hv_dt_to_dt(closest)
  IN
  IF ~t.some THEN [word |-> "", extra |-> << >>]
  ELSE IF ~rq.ok
       THEN [word |-> "FAIL:bad_requested_date_format", extra |-> << >>]
  ELSE IF ~cl.ok
       THEN [word |-> "FAIL:bad_closest_date_format", extra |-> << closest >>]
  ELSE LET dt_sec == Abs(TotalSeconds(cl, rq))
       IN  IF dt_sec > t.v
           THEN [word |-> "SKIP:closest_out_of_range",
                 extra |-> << StrftimeIsoZ(cl), DecText(dt_sec) >>]
           ELSE [word |-> "", extra |-> << >>]

InitLoop ==
  /\ fn \in {"fits", "png"}
  /\ dates \in UNION { [1..n -> ReqPool] : n \in 0..MaxDates }
  /\ tol \in TolPool
  /\ logOn \in BOOLEAN
  /\ saveHdr \in (IF fn = "fits" THEN BOOLEAN ELSE {FALSE})
  /\ di = 1
  /\ ppc = IF fn = "fits" THEN "start" ELSE "lookup"
  /\ cur = NoCur
  /\ out = << >>
  /\ log = << >>
  /\ io = << >>
  /\ trail = << >>
  /\ xml = Malformed
  /\ pos = 0
  /\ hdr = << >>
  /\ hpc = "idle"
  /\ last = NoLast

\* the date ends unsaved: the line is appended, out[date] is the empty outcome,
\* and the loop goes on to the next date (the "continue" branches)
Skip(word, exc, extra, calls) ==
  /\ log' = AppendFailed(log, logOn, Line(dates[di], word, exc, extra))
  /\ out' = SetOut(out, dates[di], NoneOutcome(fn))
  /\ trail' = Append(trail, "unsaved")
  /\ io' = (IF ppc = "lookup" THEN << >> ELSE io) \o calls
  /\ di' = di + 1
  /\ ppc' = "lookup"
  /\ cur' = NoCur

\* mutant of Caught: the handler re-raises
Caught_Reraise(exc, calls) ==
  /\ ppc' = "raised"
  /\ io' = (IF ppc = "lookup" THEN << >> ELSE io) \o calls
  /\ UNCHANGED << log, out, trail, di, cur >>

\* "except Exception as e": the date ends unsaved with a FAIL:exception line
Caught(exc, calls) == Skip("FAIL:exception" \o Sfx(fn), exc, << >>, calls)

\* the date was written: out[date] holds its paths and nothing is logged
Saved(outcome, calls) ==
  /\ out' = SetOut(out, dates[di], outcome)
  /\ trail' = Append(trail, "saved")
  /\ io' = io \o calls
  /\ di' = di + 1
  /\ ppc' = "lookup"
  /\ cur' = NoCur
  /\ UNCHANGED log

\* a call of the loop on date number di, with what came of it
Call(name, result) == << di, name, result >>

\* image_id, closest_str = _get_closest_image_id_and_date(date, source_id), and
\* the "no closest" check
Lookup ==
  /\ ppc = "lookup"
  /\ di <= Len(dates)
  /\ \E r \in RespPool :
       IF r.kind = "raise"
       THEN Caught("RequestException", << Call("getClosestImage", "raise") >>)
       ELSE IF r.kind = "status" \/ r.id = << >> \/ r.date = None
       THEN Skip("FAIL:no_closest", "", << >>, << Call("getClosestImage", "none") >>)
       ELSE /\ cur' = [cur EXCEPT !.id = r.id, !.closest = r.date]
            /\ ppc' = "gate"
            /\ io' = << Call("getClosestImage", "found") >>
            /\ UNCHANGED << log, out, trail, di >>
  /\ UNCHANGED << fn, dates, tol, logOn, saveHdr, hvars >>

\* "if max_time_delta_seconds is not None:" and its three ways out
Gate ==
  /\ ppc = "gate"
  /\ LET g == GateDecision(dates[di], cur.closest, tol)
     IN  IF g.word = ""
         THEN /\ ppc' = "fetch"
              /\ UNCHANGED << cur, log, out, trail, di, io >>
         ELSE Skip(IF g.word = "SKIP:closest_out_of_range"
                   THEN g.word \o Sfx(fn) ELSE g.word, "", g.extra, << >>)
  /\ UNCHANGED << fn, dates, tol, logOn, saveHdr, hvars >>

\* the payloads of the FITS loop: get_jp2_image_bytes, get_jp2_header_text and
\* the "is None" check
FetchJp2 ==
  /\ ppc = "fetch"
  /\ \E j \in {"raise", "none", "bytes", "garbage"} :
     \E h \in {"raise", "none", "text"} :
     \E x \in HeaderPool :
       IF j = "raise"
       THEN Caught("RequestException", << Call("getJP2Image", "raise") >>)
       ELSE IF h = "raise"
       THEN Caught("RequestException",
                   << Call("getJP2Image", j), Call("getJP2Header", "raise") >>)
       ELSE IF j = "none" \/ h = "none"
       THEN Skip("FAIL:download_jp2_or_header", "", << DecText(cur.id[1]) >>,
                 << Call("getJP2Image", j), Call("getJP2Header", h) >>)
       ELSE /\ cur' = [cur EXCEPT !.jp2 = j, !.xml = x]
            /\ ppc' = "save"
            /\ io' = io \o << Call("getJP2Image", j), Call("getJP2Header", h) >>
            /\ UNCHANGED << log, out, trail, di >>
  /\ UNCHANGED << fn, dates, tol, logOn, saveHdr, hvars >>

\* the rest of the FITS loop body: the header text file, jp2_bytes_to_numpy,
\* header_xml_to_fits_header, hdul.writeto and out[date]
SaveFits ==
  /\ ppc = "save"
  /\ \E txtOk \in BOOLEAN, fitsOk \in BOOLEAN :
       LET txt == IF saveHdr THEN << Call("write_header_txt", "ok") >> ELSE << >>
       IN  IF saveHdr /\ ~txtOk
           THEN Caught("OSError", << Call("write_header_txt", "raise") >>)
                  /\ UNCHANGED hdr
           ELSE IF cur.jp2 = "garbage"
           THEN Caught("RuntimeError", txt) /\ UNCHANGED hdr
           ELSE IF ~cur.xml.ok
           THEN Caught("ParseError", txt) /\ UNCHANGED hdr
           ELSE /\ hdr' = header_xml_to_fits_header(cur.xml.elems)
                /\ IF ~fitsOk
                   THEN Caught("OSError", txt \o << Call("write_fits", "raise") >>)
                   ELSE Saved([header_txt |-> IF saveHdr THEN HeaderTxtPath(cur.id)
                                              ELSE NoPath,
                               fits |-> FitsPath(dates[di])],
                              txt \o << Call("write_fits", "ok") >>)
  /\ UNCHANGED << fn, dates, tol, logOn, saveHdr, xml, pos, hpc, last >>

\* the payload of the PNG loop: os.makedirs(day_dir), the getPNG request and the
\* status check
FetchPng ==
  /\ ppc = "fetch"
  /\ \E dirOk \in BOOLEAN, r \in {"raise", "404", "200"} :
       IF ~dirOk
       THEN Caught("OSError", << Call("makedirs", "raise") >>)
       ELSE IF r = "raise"
       THEN Caught("RequestException",
                   << Call("makedirs", "ok"), Call("getPNG", "raise") >>)
       ELSE IF r # "200"
       THEN Skip("FAIL:download_png", "", << DecText(cur.id[1]), Str(<< "4", "0", "4" >>) >>,
                 << Call("makedirs", "ok"), Call("getPNG", r) >>)
       ELSE /\ ppc' = "save"
            /\ io' = io \o << Call("makedirs", "ok"), Call("getPNG", r) >>
            /\ UNCHANGED << cur, log, out, trail, di >>
  /\ UNCHANGED << fn, dates, tol, logOn, saveHdr, hvars >>

\* the rest of the PNG loop body: the file is written and out[date] is its path
SavePng ==
  /\ ppc = "save"
  /\ \E pngOk \in BOOLEAN :
       IF ~pngOk
       THEN Caught("OSError", << Call("write_png", "raise") >>)
       ELSE Saved([png |-> PngPath(dates[di])], << Call("write_png", "ok") >>)
  /\ UNCHANGED << fn, dates, tol, logOn, saveHdr, hvars >>

\* "return out", once the loop has run over every date
Return ==
  /\ ppc = "lookup"
  /\ di > Len(dates)
  /\ ppc' = "done"
  /\ UNCHANGED << fn, dates, tol, logOn, saveHdr, di, cur, out, log, io, trail, hvars >>

\* process_helioviewer_fits: os.makedirs(output_path) before the loop; an error
\* there leaves the function before any date is looked at
FitsStart ==
  /\ fn = "fits"
  /\ ppc = "start"
  /\ \E dirOk \in BOOLEAN : ppc' = IF dirOk THEN "lookup" ELSE "raised"
  /\ UNCHANGED << fn, dates, tol, logOn, saveHdr, di, cur, out, log, io, trail, hvars >>

FitsLookup == fn = "fits" /\ Lookup

FitsGate == fn = "fits" /\ Gate

FitsFetch == fn = "fits" /\ FetchJp2

FitsSave == fn = "fits" /\ SaveFits

FitsReturn == fn = "fits" /\ Return

PngLookup == fn = "png" /\ Lookup

PngGate == fn = "png" /\ Gate

PngFetch == fn = "png" /\ FetchPng

PngSave == fn = "png" /\ SavePng

PngReturn == fn = "png" /\ Return

process_helioviewer_fits ==
  FitsStart \/ FitsLookup \/ FitsGate \/ FitsFetch \/ FitsSave \/ FitsReturn

save_images_by_date_png ==
  PngLookup \/ PngGate \/ PngFetch \/ PngSave \/ PngReturn

Next == process_helioviewer_fits \/ save_images_by_date_png

Spec == InitLoop /\ [][Next]_vars

SpecHeader == InitHeader /\ [][NextHeader]_vars


(* ------------------- properties of the header transcoder --------------- *)

\* an element has been processed; last describes it and hdr is the record after it
Processed == last.branch # "none"

\* the text with surrounding whitespace removed, in lower case
Folded(text) == Lower(Strip(text))

\* C1: at every point of header_xml_to_fits_header (after each element, and at
\* the return) the keys of the record are pairwise distinct and none is longer
\* than 8 characters.
C1_KeysDistinctAndShort ==
  \A i \in 1..Len(hdr) :
    /\ Len(hdr[i].key) <= 8
    /\ \A j \in 1..Len(hdr) : i # j => hdr[i].key # hdr[j].key

\* C1 witness: a finished document of a repeated 10-character tag, whose last
\* element found the truncated key and all ten variants taken.
C1_Witness ==
  /\ hpc = "done"
  /\ Len(hdr) = 11
  /\ Len(xml.elems) > 11
  /\ \A i \in 1..Len(xml.elems) : Len(xml.elems[i].tag) = 10
  /\ \A d \in 0..9 : HasKey(last.before, Suffixed(last.cand, d))

\* C2 (as claimed): when the candidate key and all ten digit variants are already
\* present, the element is dropped and the record is the same before and after.
C2_ExhaustedElementDropped ==
  ( /\ Processed
    /\ HasKey(last.before, last.cand)
    /\ \A d \in 0..9 : HasKey(last.before, Suffixed(last.cand, d)) )
  => hdr = last.before

\* C3: when the candidate key is present and some digit variant is absent, the
\* value is stored under the variant with the smallest absent digit, the record
\* grows by exactly one key, and every card present before is unchanged.
C3_SmallestFreeDigit ==
  ( /\ Processed
    /\ HasKey(last.before, last.cand)
    /\ \E d \in 0..9 : ~HasKey(last.before, Suffixed(last.cand, d)) )
  => \E d \in 0..9 :
       LET k == SubSeq(last.cand, 1, Min(7, Len(last.cand))) \o << 48 + d >>
       IN  /\ ~HasKey(last.before, k)
           /\ \A e \in 0..(d - 1) : HasKey(last.before, Suffixed(last.cand, e))
           /\ Len(hdr) = Len(last.before) + 1
           /\ hdr[Len(hdr)] = [key |-> k, val |-> last.val]
           /\ \A i \in 1..Len(last.before) : hdr[i] = last.before[i]

\* C3 witness: a collision resolved with a digit above 0, because the lower
\* variants were already taken, one of them by an element carrying that tag.
C3_Witness ==
  /\ Processed
  /\ HasKey(last.before, last.cand)
  /\ Len(last.cand) = 8
  /\ last.key = Suffixed(last.cand, 2)
  /\ hdr[Len(hdr)].key = last.key
  /\ \E i \in 1..(pos - 1) : CandidateKey(xml.elems[i].tag) = Suffixed(last.cand, 0)

\* C8: a text whose folded form is nan, null, n/a or empty yields the integer 0,
\* inf or +inf the float 1.0e9, -inf the float -1.0e9, and an absent text the
\* string N/A; the record holds that value under the element's key.
C8_SentinelsFirst ==
  Processed =>
    /\ last.text = None => last.val = StrVal(Str(<< "N", "/", "A" >>))
    /\ last.text # None =>
         /\ Folded(last.text) \in
              { Str(<< "n", "a", "n" >>), Str(<< "n", "u", "l", "l" >>),
                Str(<< "n", "/", "a" >>), << >> }
            => last.val = [kind |-> "int", num |-> 0, exp |-> 0, txt |-> << >>]
         /\ Folded(last.text) \in
              { Str(<< "i", "n", "f" >>), Str(<< "+", "i", "n", "f" >>) }
            => last.val = [kind |-> "float", num |-> 1, exp |-> 9, txt |-> << >>]
         /\ Folded(last.text) = Str(<< "-", "i", "n", "f" >>)
            => last.val = [kind |-> "float", num |-> 0 - 1, exp |-> 9, txt |-> << >>]
    /\ ValueAt(hdr, last.key) = last.val

\* C8 witness: the text " NAN" followed by a line break was stored as integer 0.
C8_Witness ==
  /\ Processed
  /\ last.text = << 32 >> \o Str(<< "N", "A", "N" >>) \o << 10 >>
  /\ ValueAt(hdr, last.key) = IntVal(0)

\* C9: every string value in the record is at most 68 characters long, pure
\* ASCII, and free of line feed and carriage return.
C9_TextValuesFitCard ==
  \A i \in 1..Len(hdr) :
    hdr[i].val.kind = "str" =>
      /\ Len(hdr[i].val.txt) <= 68
      /\ \A j \in 1..Len(hdr[i].val.txt) :
           /\ hdr[i].val.txt[j] < 128
           /\ hdr[i].val.txt[j] \notin {10, 13}

\* C9 witness: a 72-character text holding a non-ASCII character and a carriage
\* return was stored as a 68-character string.
C9_Witness ==
  /\ Processed
  /\ Len(last.text) = 72
  /\ \E j \in 1..Len(last.text) : last.text[j] >= 128
  /\ \E j \in 1..Len(last.text) : last.text[j] = 13
  /\ hdr[Len(hdr)].val.kind = "str"
  /\ Len(hdr[Len(hdr)].val.txt) = 68


(* ---------------------- properties of the download loops --------------- *)

\* the step that runs the closest-image check of the current date
GateStep == ppc = "gate" /\ ppc' # "gate"

\* ... and lets the date go on to its download
Accepted == ppc' = "fetch" /\ di' = di /\ out' = out /\ log' = log

\* ... or ends the date unsaved, with the given word in the failed log (if any)
RejectedAs(word) ==
  /\ ppc' = "lookup"
  /\ di' = di + 1
  /\ out'[dates[di]] = NoneOutcome(fn)
  /\ trail' = Append(trail, "unsaved")
  /\ io' = io
  /\ IF logOn
     THEN /\ Len(log') = Len(log) + 1
          /\ SubSeq(log', 1, Len(log)) = log
          /\ log'[Len(log')].date = dates[di]
          /\ log'[Len(log')].tag = word
     ELSE log' = log

\* the whole seconds between the requested date and the closest image's date
Delta == Abs(TotalSeconds(hv_dt_to_dt(cur.closest), iso_z_to_dt(dates[di])))

OutOfRangeWord ==
  IF fn = "png" THEN "SKIP:closest_out_of_range(PNG)" ELSE "SKIP:closest_out_of_range"

\* C4: a found match with two well-formed timestamps is accepted when no
\* tolerance is set; with a tolerance it is accepted iff the whole seconds
\* between the two instants are at most the tolerance, and is otherwise ended
\* as out of range, the line of the failed log carrying that number of seconds.
C4_ToleranceGate ==
  [][ (GateStep /\ iso_z_to_dt(dates[di]).ok /\ hv_dt_to_dt(cur.closest).ok)
      => IF ~tol.some \/ Delta <= tol.v
         THEN Accepted
         ELSE /\ RejectedAs(OutOfRangeWord)
              /\ logOn => log'[Len(log')].extra[2] = DecText(Delta) ]_vars

\* C4 witness: requested 2014-01-01T23:59:59Z, closest 2014-01-02 00:00:10 and a
\* tolerance of 5 ended as out of range with dt_sec=11.
C4_Witness ==
  /\ tol = Tol(5)
  /\ Len(log) > 0
  /\ log[Len(log)] =
       Line(Str(<< "2", "0", "1", "4", "-", "0", "1", "-", "0", "1", "T", "2", "3", ":", "5", "9", ":", "5", "9", "Z" >>),
            OutOfRangeWord, "",
            << Str(<< "2", "0", "1", "4", "-", "0", "1", "-", "0", "2", "T", "0", "0", ":", "0", "0", ":", "1", "0", "Z" >>),
               Str(<< "1", "1" >>) >>)

\* the exact shape YYYY-MM-DDTHH:MM:SSZ
StrictIsoZ(s) ==
  /\ Len(s) = 20
  /\ \A i \in {1, 2, 3, 4, 6, 7, 9, 10, 12, 13, 15, 16, 18, 19} : IsDigit(s[i])
  /\ s[5] = 45 /\ s[8] = 45 /\ s[11] = 84 /\ s[14] = 58 /\ s[17] = 58 /\ s[20] = 90

\* the exact shape YYYY-MM-DD HH:MM:SS
StrictHv(s) ==
  /\ Len(s) = 19
  /\ \A i \in {1, 2, 3, 4, 6, 7, 9, 10, 12, 13, 15, 16, 18, 19} : IsDigit(s[i])
  /\ s[5] = 45 /\ s[8] = 45 /\ s[11] = 32 /\ s[14] = 58 /\ s[17] = 58

\* C5 (as claimed): whatever the tolerance setting, a found match whose requested
\* timestamp is not of the form YYYY-MM-DDTHH:MM:SSZ ends as
\* bad_requested_date_format, one whose closest timestamp is not of the form
\* YYYY-MM-DD HH:MM:SS ends as bad_closest_date_format, and neither is accepted.
C5_MalformedRejectedAlways ==
  [][ GateStep =>
        /\ ~StrictIsoZ(dates[di]) => RejectedAs("FAIL:bad_requested_date_format")
        /\ ~StrictHv(cur.closest) => RejectedAs("FAIL:bad_closest_date_format") ]_vars

\* C5 (amended): with a tolerance set, a found match whose requested timestamp
\* strptime("%Y-%m-%dT%H:%M:%SZ") refuses ends as bad_requested_date_format, and
\* one whose requested timestamp parses but whose closest timestamp
\* strptime("%Y-%m-%d %H:%M:%S") refuses ends as bad_closest_date_format; neither
\* is accepted.  Without a tolerance no timestamp is parsed and every found match
\* is accepted.
C5_MalformedRejectedUnderTolerance ==
  [][ GateStep =>
        IF ~tol.some THEN Accepted
        ELSE /\ ~iso_z_to_dt(dates[di]).ok
                  => RejectedAs("FAIL:bad_requested_date_format")
             /\ (iso_z_to_dt(dates[di]).ok /\ ~hv_dt_to_dt(cur.closest).ok)
                  => /\ RejectedAs("FAIL:bad_closest_date_format")
                     /\ logOn => log'[Len(log')].extra = << cur.closest >> ]_vars

\* C5 witness: with a tolerance set, both kinds of line are in the failed log:
\* a requested date in the resolver's format, and a closest date in the
\* requested format.
C5_Witness ==
  /\ tol.some
  /\ Len(log) = 2
  /\ log[1] = Line(Str(<< "2", "0", "1", "4", "-", "0", "1", "-", "0", "1", " ", "2", "3", ":", "5", "9", ":", "5", "9" >>),
                   "FAIL:bad_requested_date_format", "", << >>)
  /\ log[2].tag = "FAIL:bad_closest_date_format"
  /\ log[2].extra = << Str(<< "2", "0", "1", "4", "-", "0", "1", "-", "0", "2", "T", "0", "0", ":", "0", "0", ":", "1", "0", "Z" >>) >>

\* the last place of date d among the dates already finished
LastIndex(d) ==
  CHOOSE i \in 1..(di - 1) :
    dates[i] = d /\ \A j \in (i + 1)..(di - 1) : dates[j] # d

\* how far the call is from its return
Measure ==
  4 * (Len(dates) + 1 - di)
    + (CASE ppc = "start" -> 4 [] ppc = "lookup" -> 3 [] ppc = "gate" -> 2
         [] ppc = "fetch" -> 1 [] OTHER -> 0)

C6_State ==
  \* an exception leaves the function only from the os.makedirs before the loop
  /\ ppc = "raised" => (fn = "fits" /\ di = 1 /\ io = << >> /\ out = << >>)
  \* the dates are taken in list order, one at a time
  /\ Len(trail) = di - 1
  /\ di <= Len(dates) + 1
  /\ \A k \in 1..Len(io) :
       io[k][1] = IF ppc \in {"gate", "fetch", "save"} THEN di ELSE di - 1
  \* the result has an entry for every date finished, empty iff it failed
  /\ DOMAIN out = { dates[i] : i \in 1..(di - 1) }
  /\ \A d \in DOMAIN out :
       (trail[LastIndex(d)] = "unsaved") <=> (out[d] = NoneOutcome(fn))
  \* the function returns after the last date
  /\ ppc = "done" => di = Len(dates) + 1

PayloadNames ==
  { "getJP2Image", "getJP2Header", "getPNG", "makedirs",
    "write_header_txt", "write_fits", "write_png" }

HasPayload(calls) == \E k \in 1..Len(calls) : calls[k][2] \in PayloadNames

\* C7: with max_time_delta_seconds set, a download or a write for a date
\* happens only after the one closest-image lookup of that date returned an id
\* and a date and the closest timestamp was found within the tolerance; so a
\* date without a closest image, with a malformed timestamp or out of range
\* sees no download and no write.
C7_DownloadOnlyAfterGate ==
  [][ (tol.some /\ io' # io /\ HasPayload(io')) =>
        /\ ppc \in {"fetch", "save"}
        /\ di' \in {di, di + 1}
        /\ io'[1] = << di, "getClosestImage", "found" >>
        /\ \A k \in 2..Len(io') : io'[k][1] = di /\ io'[k][2] # "getClosestImage"
        /\ cur.id # << >>
        /\ cur.closest # None
        /\ iso_z_to_dt(dates[di]).ok
        /\ hv_dt_to_dt(cur.closest).ok
        /\ Delta <= tol.v ]_vars

\* C7 witness: with a tolerance of 5 a FITS file was written for a date whose
\* closest image was 5 seconds away.
C7_Witness ==
  /\ tol = Tol(5)
  /\ ppc = "lookup"
  /\ Len(io) > 0
  /\ io[Len(io)] = << di - 1, "write_fits", "ok" >>
  /\ dates[di - 1] = Str(<< "2", "0", "1", "4", "-", "0", "1", "-", "0", "1", "T", "2", "3", ":", "5", "9", ":", "5", "9", "Z" >>)
  /\ out[dates[di - 1]].fits = FitsPath(dates[di - 1])

\* the dates finished unsaved, by their place in the list
Unsaved == { i \in 1..Len(trail) : trail[i] = "unsaved" }

FailWords ==
  { "FAIL:no_closest", "FAIL:bad_requested_date_format",
    "FAIL:bad_closest_date_format", "SKIP:closest_out_of_range",
    "SKIP:closest_out_of_range(PNG)", "FAIL:download_jp2_or_header",
    "FAIL:download_png", "FAIL:exception", "FAIL:exception(PNG)" }

\* C10: with failed_log_path set the failed log holds exactly one line for each
\* date finished unsaved and none for a saved one, in the order of the dates;
\* without it nothing is appended.
C10_OneLinePerFailure ==
  IF logOn
  THEN /\ Len(log) = Cardinality(Unsaved)
       /\ \A i \in Unsaved :
            LET k == Cardinality({ j \in Unsaved : j <= i })
            IN  log[k].date = dates[i] /\ log[k].tag \in FailWords
  ELSE log = << >>

\* C10 witness: the call returned for two dates, the first unsaved and the second
\* saved, with one line in the log.
C10_Witness ==
  /\ logOn
  /\ trail = << "unsaved", "saved" >>
  /\ Len(log) = 1
  /\ ppc = "done"

=============================================================================
